---- MODULE Spec2Model ----
(***************************************************************************)
(* Flight-delay pipeline: DelayModel (challenge/model.py), the batch       *)
(* driver (challenge/run_pipeline.py) and the serving layer                *)
(* (challenge/api/api.py).                                                 *)
(*                                                                         *)
(* A data frame is a record [columns |-> sequence of column names,         *)
(* rows |-> sequence of rows], a row being the sequence of its cell        *)
(* values in column order.  Column names are the strings pandas builds     *)
(* ("OPERA_Grupo LATAM", "MES_10").                                        *)
(***************************************************************************)
EXTENDS Integers, Sequences, FiniteSets, TLC

\* ------------------------------------------------------------------------
\* Bounds of the exploration
\* ------------------------------------------------------------------------
\* largest number of records in one /predict request
MaxBatch == 2
\* largest number of rows of a CSV data set
MaxRows == 2

\* Python's None where a string is expected, where a classifier is expected
\* and where a list of column names is expected
None == "None"
NoModel == [none |-> TRUE]
NoColumns == <<None>>

\* ------------------------------------------------------------------------
\* Input values
\* ------------------------------------------------------------------------
\* Field values of the records sent to /predict: for each field values of
\* the whitelist and one value outside it ("Argentinas", "O" and 13 are the
\* rejected values of tests/api/test_api.py)
OperaInputs == {"Argentinas", "Grupo LATAM"}
TipoInputs == {"N", "O"}
MesInputs == {2, 10, 13}

\* Field values of the rows of the CSV data sets (data.csv is not filtered
\* by the whitelist of the API)
CsvOperas == {"Argentinas", "Grupo LATAM"}
CsvTipos == {"I", "N"}
CsvMeses == {2, 10}

\* the values in the order in which pandas sorts them (strings by code
\* point, integers by value)
OperaOrder == <<"Aerolineas Argentinas", "Argentinas", "Copa Air", "Grupo LATAM",
                "Latin American Wings", "Sky Airline">>
TipoOrder == <<"I", "N", "O">>
MesOrder == [i \in 1..13 |-> i]

FlightData == [OPERA : OperaInputs, MES : MesInputs, TIPOVUELO : TipoInputs]
CsvRows == [OPERA : CsvOperas, MES : CsvMeses, TIPOVUELO : CsvTipos]

SeqsUpTo(S, n) == UNION {[1..k -> S] : k \in 0..n}

\* ------------------------------------------------------------------------
\* pandas primitives used by the code
\* ------------------------------------------------------------------------
StrName(prefix, v) == prefix \o "_" \o v
IntName(prefix, v) == prefix \o "_" \o ToString(v)

Levels(series, order) ==
    SelectSeq(order, LAMBDA v : \E i \in DOMAIN series : series[i] = v)

\* a get_dummies whose indicators are those of the first row in every row
get_dummies_first_row(series, order, name) ==
    LET lv == Levels(series, order)
    IN  [columns |-> [j \in 1..Len(lv) |-> name[lv[j]]],
         rows |-> [i \in 1..Len(series) |->
                     [j \in 1..Len(lv) |-> IF series[1] = lv[j] THEN 1 ELSE 0]]]

\* pd.get_dummies(series, prefix=...): one indicator column per distinct
\* value of the series, the values sorted
get_dummies(series, order, name) ==
    LET lv == Levels(series, order)
    IN  [columns |-> [j \in 1..Len(lv) |-> name[lv[j]]],
         rows |-> [i \in 1..Len(series) |->
                     [j \in 1..Len(lv) |-> IF series[i] = lv[j] THEN 1 ELSE 0]]]

\* pd.concat([...], axis=1) of two frames with the same rows index
concat(a, b) ==
    [columns |-> a.columns \o b.columns,
     rows |-> [i \in 1..Len(a.rows) |-> a.rows[i] \o b.rows[i]]]

HasColumn(df, c) == \E j \in 1..Len(df.columns) : df.columns[j] = c

ColumnIndex(df, c) == CHOOSE j \in 1..Len(df.columns) : df.columns[j] = c

\* an assignment that fills the new column with 1
AssignOne(df, c) ==
    [columns |-> Append(df.columns, c),
     rows |-> [i \in 1..Len(df.rows) |-> Append(df.rows[i], 1)]]

\* df[c] = 0 for a column c that df does not have: appended as last column
AssignZero(df, c) ==
    [columns |-> Append(df.columns, c),
     rows |-> [i \in 1..Len(df.rows) |-> Append(df.rows[i], 0)]]

\* df[cols]: the columns cols of df, looked up by name, in the order of cols
SelectColumns(df, cols) ==
    [columns |-> cols,
     rows |-> [i \in 1..Len(df.rows) |->
                 [j \in 1..Len(cols) |-> df.rows[i][ColumnIndex(df, cols[j])]]]]

\* a reindex that takes the cells by position instead of by column name
reindex_by_position(df, cols, fill) ==
    [columns |-> cols,
     rows |-> [i \in 1..Len(df.rows) |->
                 [j \in 1..Len(cols) |->
                    IF j <= Len(df.columns) THEN df.rows[i][j] ELSE fill]]]

\* df.reindex(columns=cols, fill_value=fill)
reindex(df, cols, fill) ==
    [columns |-> cols,
     rows |-> [i \in 1..Len(df.rows) |->
                 [j \in 1..Len(cols) |->
                    IF HasColumn(df, cols[j])
                    THEN df.rows[i][ColumnIndex(df, cols[j])]
                    ELSE fill]]]

Column(data, field) == [i \in 1..Len(data) |-> data[i][field]]

\* the column name of each value: prefix, "_", the value as a string
OperaName == [v \in {OperaOrder[i] : i \in DOMAIN OperaOrder} |-> StrName("OPERA", v)]
TipoName == [v \in {TipoOrder[i] : i \in DOMAIN TipoOrder} |-> StrName("TIPOVUELO", v)]
MesName == [v \in {MesOrder[i] : i \in DOMAIN MesOrder} |-> IntName("MES", v)]

\* ------------------------------------------------------------------------
\* The classifier (xgboost.XGBClassifier), an opaque capability: a fitted
\* classifier remembers the column names of the matrix it was fit on and
\* labels each row of a matrix by a fixed function of the row's cells.
\* ------------------------------------------------------------------------
RECURSIVE WeightedSum(_, _)
WeightedSum(row, n) == IF n = 0 THEN 0 ELSE n * row[n] + WeightedSum(row, n - 1)

ClassifyRow(row) == (WeightedSum(row, Len(row)) + Len(row)) % 2

\* a predict that returns the labels in reverse row order
model_predict_reversed(df) ==
    [i \in 1..Len(df.rows) |-> ClassifyRow(df.rows[Len(df.rows) + 1 - i])]

\* model.predict(features): one label per row, in row order
model_predict(df) == [i \in 1..Len(df.rows) |-> ClassifyRow(df.rows[i])]

\* the classifier model.fit(X_train, y_train) returns for a DataFrame X_train
FittedClassifier(cols) ==
    [feature_names_in_ |-> cols, booster_feature_names |-> cols, broken |-> FALSE]

\* ------------------------------------------------------------------------
\* DelayModel (challenge/model.py)
\* ------------------------------------------------------------------------
\* an encoder that puts the block of MES first
preprocess_features_mes_first(data) ==
    concat(concat(get_dummies(Column(data, "MES"), MesOrder, MesName),
                  get_dummies(Column(data, "OPERA"), OperaOrder, OperaName)),
           get_dummies(Column(data, "TIPOVUELO"), TipoOrder, TipoName))

\* the feature matrix DelayModel.preprocess builds from a data set
preprocess_features(data) ==
    concat(concat(get_dummies(Column(data, "OPERA"), OperaOrder, OperaName),
                  get_dummies(Column(data, "TIPOVUELO"), TipoOrder, TipoName)),
           get_dummies(Column(data, "MES"), MesOrder, MesName))

RECURSIVE FillMissing(_, _, _)
\* the loop of DelayModel.predict over self._feature_columns[k..]:
\* a column the frame lacks is assigned 0
FillMissing(df, cols, k) ==
    IF k > Len(cols) THEN df
    ELSE FillMissing(IF HasColumn(df, cols[k]) THEN df ELSE AssignZero(df, cols[k]),
                     cols, k + 1)

\* the CSV data sets read by the clients of DelayModel: at least one row
DataSets == SeqsUpTo(CsvRows, MaxRows) \ {<<>>}

NoFrame == [columns |-> <<>>, rows |-> <<>>]
NoCall == [made |-> FALSE]

\* ------------------------------------------------------------------------
\* Timestamps.  A cell of Fecha-I or Fecha-O is the text "Y-M-D h:m:s" of
\* six numbers (the record of them), some other text, the missing value
\* of a CSV (a float nan) or a number.
\* ------------------------------------------------------------------------
Stamp(year, month, day, hour, minute, second) ==
    [year |-> year, month |-> month, day |-> day,
     hour |-> hour, minute |-> minute, second |-> second]

NotADate == [text |-> "not a date"]
NaN == [nan |-> TRUE]
Number == [number |-> 20170101]

IsLeap(year) == year % 4 = 0 /\ (year % 100 # 0 \/ year % 400 = 0)

DaysInMonth(year, month) ==
    CASE month = 2 -> IF IsLeap(year) THEN 29 ELSE 28
      [] month \in {4, 6, 9, 11} -> 30
      [] OTHER -> 31

\* datetime.strptime(cell, "%Y-%m-%d %H:%M:%S") returns a datetime (instead
\* of raising TypeError or ValueError)
Parses(cell) ==
    /\ "year" \in DOMAIN cell
    /\ cell.year \in 1..9999
    /\ cell.month \in 1..12
    /\ cell.day \in 1..DaysInMonth(cell.year, cell.month)
    /\ cell.hour \in 0..23
    /\ cell.minute \in 0..59
    /\ cell.second \in 0..59

RECURSIVE DaysBeforeMonth(_, _)
DaysBeforeMonth(year, month) ==
    IF month = 1 THEN 0
    ELSE DaysBeforeMonth(year, month - 1) + DaysInMonth(year, month - 1)

\* date.toordinal(): the number of the day, 0001-01-01 being day 1
toordinal(dt) ==
    LET y == dt.year - 1
    IN  y * 365 + (y \div 4) - (y \div 100) + (y \div 400)
        + DaysBeforeMonth(dt.year, dt.month) + dt.day

\* datetime.time() as the number of seconds since midnight
TimeOfDay(dt) == dt.hour * 3600 + dt.minute * 60 + dt.second

\* a <= b of two datetimes: by day, then by time of day
NotAfter(a, b) ==
    \/ toordinal(a) < toordinal(b)
    \/ toordinal(a) = toordinal(b) /\ TimeOfDay(a) <= TimeOfDay(b)

\* (a - b).total_seconds() of two datetimes
total_seconds(a, b) ==
    (toordinal(a) - toordinal(b)) * 86400 + (TimeOfDay(a) - TimeOfDay(b))

\* ------------------------------------------------------------------------
\* The temporal extractors of DelayModel.preprocess
\* ------------------------------------------------------------------------
get_period_day(date) ==
    IF ~Parses(date) THEN "noche"
    ELSE LET date_time == TimeOfDay(date)
         IN  IF 5 * 3600 <= date_time /\ date_time <= 11 * 3600 + 59 * 60
             THEN "mañana"
             ELSE IF 12 * 3600 <= date_time /\ date_time <= 18 * 3600 + 59 * 60
                  THEN "tarde"
                  ELSE "noche"

is_high_season(fecha) ==
    IF ~Parses(fecha) THEN 0
    ELSE LET year == fecha.year
             ranges == << <<Stamp(year, 12, 15, 0, 0, 0), Stamp(year, 12, 31, 0, 0, 0)>>,
                          <<Stamp(year, 1, 1, 0, 0, 0), Stamp(year, 3, 3, 0, 0, 0)>>,
                          <<Stamp(year, 7, 15, 0, 0, 0), Stamp(year, 7, 31, 0, 0, 0)>>,
                          <<Stamp(year, 9, 11, 0, 0, 0), Stamp(year, 9, 30, 0, 0, 0)>> >>
         IN  IF \E k \in DOMAIN ranges :
                    /\ NotAfter(ranges[k][1], fecha)
                    /\ NotAfter(fecha, ranges[k][2])
             THEN 1
             ELSE 0

\* a get_min_diff whose value for a row it cannot parse is a day
get_min_diff_no_default(row) ==
    IF /\ "Fecha-O" \in DOMAIN row
       /\ Parses(row["Fecha-O"])
       /\ Parses(row["Fecha-I"])
    THEN total_seconds(row["Fecha-O"], row["Fecha-I"])
    ELSE 86400

\* min_diff is kept in sixtieths of a minute: the value is
\* total_seconds(), the float of the code is this number / 60
get_min_diff(row) ==
    IF /\ "Fecha-O" \in DOMAIN row
       /\ Parses(row["Fecha-O"])
       /\ Parses(row["Fecha-I"])
    THEN total_seconds(row["Fecha-O"], row["Fecha-I"])
    ELSE 0

\* a label that counts a difference of exactly 15 minutes as a delay
derive_delay_inclusive(min_diff) == IF min_diff >= 15 * 60 THEN 1 ELSE 0

\* np.where(data["min_diff"] > 15, 1, 0) for one row, min_diff in sixtieths
\* of a minute
derive_delay(min_diff) == IF min_diff > 15 * 60 THEN 1 ELSE 0

\* one row of the local frame data after lines 95-101: the row of the
\* caller's frame with the engineered columns, and delay if the frame has
\* no such column
engineered_row(row) ==
    LET with_dates == row @@ ("period_day" :> get_period_day(row["Fecha-I"]))
                          @@ ("high_season" :> is_high_season(row["Fecha-I"]))
                          @@ ("min_diff" :> get_min_diff(row))
    IN  IF "delay" \in DOMAIN row THEN with_dates
        ELSE with_dates @@ ("delay" :> derive_delay(get_min_diff(row)))

\* the local frame data after lines 91-101
engineered(df) ==
    [columns |-> df.columns \o <<"period_day", "high_season", "min_diff">>
                    \o (IF HasColumn(df, "delay") THEN <<>> ELSE <<"delay">>),
     rows |-> [i \in 1..Len(df.rows) |-> engineered_row(df.rows[i])]]

VARIABLES
    pc,                 \* the client process of DelayModel: its position
    mode,               \* args.mode of run_pipeline, or "test" for a client in
                        \* the manner of tests/model/test_model.py
    m_model,            \* DelayModel._model
    m_feature_columns,  \* DelayModel._feature_columns
    columns_origin,     \* history: the kind of preprocess call that set it
    disk,               \* the file xgb_model.pkl
    X,                  \* the training matrix returned by preprocess
    df_pred,            \* the rows of the inference data set
    X_pred,             \* the client's encoded inference frame
    preds,              \* the value predict returned
    call,               \* history: the call of the classifier made by predict
    reloaded            \* test client: the second predict has been started

pvars == <<pc, mode, m_model, m_feature_columns, columns_origin, disk, X, df_pred,
           X_pred, preds, call, reloaded>>

VARIABLES
    api_pc,             \* "import" until the body of api.py has run, then "serving"
    FAKE_MODEL_MODE,
    xgb_model,
    feature_names,
    bq_client,
    hpc,                \* per handler: "idle", "built" (features_df exists), "done"
    payload,            \* per handler: the request body
    features_df,        \* per handler: the value of _build_features
    response,           \* per handler: the response sent
    invoked,            \* per handler, history: its call of xgb_model.predict
    logged              \* per handler, history: the row it inserted into BigQuery

gvars == <<api_pc, FAKE_MODEL_MODE, xgb_model, feature_names, bq_client>>

hvars == <<hpc, payload, features_df, response, invoked, logged>>

avars == <<gvars, hvars>>

VARIABLES
    pre_pc,             \* a caller of DelayModel.preprocess: "idle", "loaded" (it
                        \* holds a raw frame), "returned", "raised"
    pre_df,             \* the caller's raw frame
    pre_target_column,  \* the argument target_column
    pre_data,           \* the local frame data of preprocess when the call ends
    pre_features,       \* the feature matrix returned
    pre_target          \* the target returned

evars == <<pre_pc, pre_df, pre_target_column, pre_data, pre_features, pre_target>>

vars == <<pvars, avars, evars>>

\* ------------------------------------------------------------------------
\* The clients of DelayModel: run_pipeline.main and the test client
\* ------------------------------------------------------------------------
\* a client process starts, up to model = DelayModel(); the server is not
\* running while a data set is processed
Main(m) ==
    /\ pc = "start"
    /\ api_pc = "import"
    /\ mode' = m
    /\ m_model' = NoModel
    /\ m_feature_columns' = NoColumns
    /\ columns_origin' = None
    /\ pc' = IF m \in {"train", "both", "test"} THEN "train" ELSE "predict"
    /\ UNCHANGED <<disk, X, df_pred, X_pred, preds, call, reloaded>>
    /\ UNCHANGED <<avars, evars>>

\* X, y = model.preprocess(df_train, target_column="delay")
TrainPreprocess(df) ==
    /\ pc = "train"
    /\ X' = preprocess_features(df)
    /\ m_feature_columns' = preprocess_features(df).columns
    /\ columns_origin' = "training"
    /\ pc' = "fit"
    /\ UNCHANGED <<mode, m_model, disk, df_pred, X_pred, preds, call, reloaded>>
    /\ UNCHANGED <<avars, evars>>

\* model.fit(X, y); train_test_split(test_size=0.33) raises on fewer than
\* two rows.  No client reads X again: the variable is released here.
Fit ==
    /\ pc = "fit"
    /\ IF Len(X.rows) < 2
       THEN /\ pc' = "error"
            /\ UNCHANGED <<m_model, disk>>
       ELSE /\ m_model' = FittedClassifier(X.columns)
            /\ disk' = FittedClassifier(X.columns)
            /\ pc' = CASE mode = "both" -> "predict"
                       [] mode = "test" -> "batch"
                       [] OTHER -> "done"
    /\ X' = NoFrame
    /\ UNCHANGED <<mode, m_feature_columns, columns_origin, df_pred, X_pred, preds,
                   call, reloaded>>
    /\ UNCHANGED <<avars, evars>>

\* X_pred = model.preprocess(df_pred)
PredictPreprocess(df) ==
    /\ pc = "predict"
    /\ df_pred' = df
    /\ X_pred' = preprocess_features(df)
    /\ m_feature_columns' = preprocess_features(df).columns
    /\ columns_origin' = "inference"
    /\ pc' = "call_predict"
    /\ UNCHANGED <<mode, m_model, disk, X, preds, call, reloaded>>
    /\ UNCHANGED <<avars, evars>>

\* the test client builds its encoded inference batch without calling
\* preprocess of this model (test_model.py:75 takes rows of the training
\* matrix; predict accepts the encoding of any rows)
InferenceBatch(df) ==
    /\ pc = "batch"
    /\ df_pred' = df
    /\ X_pred' = preprocess_features(df)
    /\ pc' = "call_predict"
    /\ UNCHANGED <<mode, m_model, m_feature_columns, columns_origin, disk, X, preds,
                   call, reloaded>>
    /\ UNCHANGED <<avars, evars>>

\* preds = model.predict(X_pred).  raises: the classifier raises, which
\* xgboost may do when the columns it is given are not those it was fit on.
Predict(raises) ==
    /\ pc = "call_predict"
    /\ LET loaded == m_model = NoModel
           model == IF loaded THEN disk ELSE m_model
           filled == FillMissing(X_pred, m_feature_columns, 1)
           features == SelectColumns(filled, m_feature_columns)
       IN  IF model = NoModel \/ m_feature_columns = NoColumns
           THEN \* joblib.load finds no file, or None is not iterable
                /\ raises = FALSE
                /\ pc' = "error"
                /\ m_model' = model
                /\ UNCHANGED <<X_pred, preds, call>>
           ELSE /\ m_model' = model
                /\ X_pred' = filled
                /\ raises => features.columns # model.booster_feature_names
                /\ call' = [made |-> TRUE, loaded |-> loaded, model |-> model,
                            features |-> features, origin |-> columns_origin,
                            raised |-> raises]
                /\ IF raises
                   THEN pc' = "error" /\ UNCHANGED preds
                   ELSE pc' = "done" /\ preds' = model_predict(features)
    /\ UNCHANGED <<mode, m_feature_columns, columns_origin, disk, X, df_pred, reloaded>>
    /\ UNCHANGED <<avars, evars>>

\* test_model.py:81-82: self.model._model = None, then predict on a copy of
\* the batch
Reload ==
    /\ pc = "done"
    /\ mode = "test"
    /\ ~reloaded
    /\ reloaded' = TRUE
    /\ m_model' = NoModel
    /\ preds' = <<>>
    /\ call' = NoCall
    /\ pc' = "call_predict"
    /\ UNCHANGED <<mode, m_feature_columns, columns_origin, disk, X, df_pred, X_pred>>
    /\ UNCHANGED <<avars, evars>>

\* the client process ends; the file xgb_model.pkl stays
Exit ==
    /\ pc \in {"done", "error"}
    /\ mode = "test" /\ pc = "done" => reloaded
    /\ pc' = "start"
    /\ mode' = None
    /\ m_model' = NoModel
    /\ m_feature_columns' = NoColumns
    /\ columns_origin' = None
    /\ X' = NoFrame
    /\ df_pred' = <<>>
    /\ X_pred' = NoFrame
    /\ preds' = <<>>
    /\ call' = NoCall
    /\ reloaded' = FALSE
    /\ UNCHANGED disk
    /\ UNCHANGED <<avars, evars>>
\* ------------------------------------------------------------------------
\* The serving layer (challenge/api/api.py)
\* ------------------------------------------------------------------------
VALID_OPERAS == {"Grupo LATAM", "Aerolineas Argentinas", "Sky Airline", "Copa Air",
                 "Latin American Wings"}
VALID_TIPOVUELOS == {"N", "I"}
VALID_MESES == 1..12

\* number of request handlers that run concurrently
NumHandlers == 2
Handlers == 1..NumHandlers

\* _FakeModel()
FakeModel == [fake |-> TRUE]

\* the classifiers DelayModel.fit can have written to xgb_model.pkl
FitArtifacts ==
    {FittedClassifier(preprocess_features(d).columns) : d \in {e \in DataSets : Len(e) >= 2}}

\* the objects an artifact can unpickle to: a classifier written by fit; the
\* same without the attribute feature_names_in_ (the names are on the
\* booster only); the same with a predict that raises; a classifier that
\* carries no feature names at all
Artifacts ==
    FitArtifacts
    \cup {[a EXCEPT !.feature_names_in_ = NoColumns] : a \in FitArtifacts}
    \cup {[a EXCEPT !.broken = TRUE] : a \in FitArtifacts}
    \cup {[feature_names_in_ |-> NoColumns, booster_feature_names |-> NoColumns,
           broken |-> FALSE]}

\* the body of a /predict request: one FlightData object or a BatchRequest
Payloads ==
    {[kind |-> "single", flights |-> <<f>>] : f \in FlightData}
    \cup {[kind |-> "batch", flights |-> fs] : fs \in SeqsUpTo(FlightData, MaxBatch)}

NoPayload == [kind |-> None, flights |-> <<>>]
NoResponse == [status |-> 0]
NoRow == [logged |-> FALSE]

\* outcomes of reading an artifact: no file, a file that does not load, a
\* download that fails
Absent == [absent |-> TRUE]
Corrupt == [corrupt |-> TRUE]
Fails == [fails |-> TRUE]

\* no exception raised
NoRaise == [status |-> 0]

HTTPException(code, text) == [status |-> code, detail |-> text]


Init ==
    /\ pc = "start"
    /\ mode = None
    /\ m_model = NoModel
    /\ m_feature_columns = NoColumns
    /\ columns_origin = None
    /\ disk = NoModel
    /\ X = NoFrame
    /\ df_pred = <<>>
    /\ X_pred = NoFrame
    /\ preds = <<>>
    /\ call = NoCall
    /\ reloaded = FALSE
    /\ api_pc = "import"
    /\ FAKE_MODEL_MODE = FALSE
    /\ xgb_model = NoModel
    /\ feature_names = <<>>
    /\ bq_client = None
    /\ hpc = [h \in Handlers |-> "idle"]
    /\ payload = [h \in Handlers |-> NoPayload]
    /\ features_df = [h \in Handlers |-> NoFrame]
    /\ response = [h \in Handlers |-> NoResponse]
    /\ invoked = [h \in Handlers |-> NoCall]
    /\ logged = [h \in Handlers |-> NoRow]
    /\ pre_pc = "idle"
    /\ pre_df = NoFrame
    /\ pre_target_column = None
    /\ pre_data = NoFrame
    /\ pre_features = NoFrame
    /\ pre_target = <<>>

_extract_feature_names(model) ==
    IF model.feature_names_in_ # NoColumns THEN model.feature_names_in_
    ELSE IF model.booster_feature_names # NoColumns /\ model.booster_feature_names # <<>>
         THEN model.booster_feature_names
         ELSE <<>>

\* initialize_model() with FAKE_MODEL_MODE off.  local is the content of
\* MODEL_LOCAL_PATH (Absent, Corrupt when loading it raises, or the object
\* it unpickles to), remote the outcome of the download from the bucket
\* (Fails or the object).  The value is <<xgb_model, feature_names>>.
initialize_model(local, DISABLE_GCP, remote) ==
    IF local \notin {Absent, Corrupt}
    THEN <<local, _extract_feature_names(local)>>
    ELSE IF DISABLE_GCP
         THEN <<NoModel, <<>> >>
         ELSE IF remote = Fails
              THEN <<NoModel, <<>> >>
              ELSE <<remote, _extract_feature_names(remote)>>

\* the body of api.py (lines 37 and 195-199) run in an environment: the
\* flag CHALLENGE_API_FAKE_MODEL, whether the file at MODEL_LOCAL_PATH
\* loads, the flag CHALLENGE_API_DISABLE_GCP, the outcome of the download
\* and the client initialize_bigquery obtains (None when logging is
\* disabled or fails).  MODEL_LOCAL_PATH is the file DelayModel.fit writes;
\* no client process runs while the server starts.
Import(fake, loads, DISABLE_GCP, remote, bq) ==
    /\ api_pc = "import"
    /\ pc = "start"
    /\ api_pc' = "serving"
    /\ FAKE_MODEL_MODE' = fake
    /\ LET local == IF disk = NoModel THEN Absent ELSE IF loads THEN disk ELSE Corrupt
       IN  IF fake
           THEN \* _initialize_fake_model()
                /\ feature_names' = <<>>
                /\ xgb_model' = FakeModel
                /\ bq_client' = None
           ELSE /\ xgb_model' = initialize_model(local, DISABLE_GCP, remote)[1]
                /\ feature_names' = initialize_model(local, DISABLE_GCP, remote)[2]
                /\ bq_client' = bq
    /\ UNCHANGED hvars
    /\ UNCHANGED <<pvars, evars>>

\* _validate_flight: the detail of the HTTPException it raises, or None
_validate_flight(flight) ==
    IF flight.OPERA \notin VALID_OPERAS THEN "Invalid airline (OPERA)"
    ELSE IF flight.TIPOVUELO \notin VALID_TIPOVUELOS THEN "Invalid flight type (TIPOVUELO)"
    ELSE IF flight.MES \notin VALID_MESES THEN "Invalid month (MES)"
    ELSE None

\* a loop that validates the first record only
validate_first_only(flights) ==
    IF flights = <<>> THEN None ELSE _validate_flight(flights[1])

\* the loop "for flight in flights: _validate_flight(flight)": the first
\* exception raised, or None
validate_all(flights) ==
    LET bad == {i \in 1..Len(flights) : _validate_flight(flights[i]) # None}
    IN  IF bad = {} THEN None
        ELSE _validate_flight(flights[CHOOSE i \in bad : \A j \in bad : i <= j])

\* pd.get_dummies(df, columns=["OPERA", "TIPOVUELO", "MES"], prefix=[...])
\* of the frame of the payload
payload_dummies(flights) ==
    concat(concat(get_dummies(Column(flights, "OPERA"), OperaOrder, OperaName),
                  get_dummies(Column(flights, "TIPOVUELO"), TipoOrder, TipoName)),
           get_dummies(Column(flights, "MES"), MesOrder, MesName))

\* a _build_features without the test of xgb_model and feature_names
_build_features_unchecked(flights) ==
    IF flights = <<>>
    THEN [raised |-> HTTPException(500, "Internal Server Error"), df |-> NoFrame]
    ELSE [raised |-> NoRaise,
          df |-> reindex(FillMissing(payload_dummies(flights), feature_names, 1),
                         feature_names, 0)]

\* _build_features with FAKE_MODEL_MODE off: [raised |-> the exception or
\* NoRaise, df |-> the value returned]
_build_features(flights) ==
    IF xgb_model = NoModel \/ feature_names = <<>>
    THEN [raised |-> HTTPException(500, "Model not available"), df |-> NoFrame]
    ELSE IF flights = <<>>
         THEN \* pd.get_dummies raises KeyError: the empty frame has no columns
              [raised |-> HTTPException(500, "Internal Server Error"), df |-> NoFrame]
         ELSE [raised |-> NoRaise,
               df |-> reindex(FillMissing(payload_dummies(flights), feature_names, 1),
                              feature_names, 0)]

\* the response of predict_delay built from the predictions
Respond(p, predictions) ==
    IF p.kind = "batch"
    THEN [status |-> 200, predict |-> predictions]
    ELSE [status |-> 200, delay_prediction |-> predictions[1],
          details |-> [airline |-> p.flights[1].OPERA, month |-> p.flights[1].MES,
                       flight_type |-> p.flights[1].TIPOVUELO]]

\* log_prediction_to_bigquery: the row inserted, if any
log_prediction_to_bigquery(flight_data, prediction) ==
    IF bq_client = None \/ FAKE_MODEL_MODE THEN NoRow
    ELSE [logged |-> TRUE, airline |-> flight_data.OPERA, month |-> flight_data.MES,
          flight_type |-> flight_data.TIPOVUELO, delay_prediction |-> prediction]

LogOf(p, predictions) ==
    IF p.kind = "batch" THEN NoRow
    ELSE log_prediction_to_bigquery(p.flights[1], predictions[1])

\* predict_delay up to the call of the classifier: validation, then the
\* fake predictions or _build_features.  [done |-> the handler has
\* finished, response, df, logged]
Prepare(p) ==
    IF validate_all(p.flights) # None
    THEN [done |-> TRUE, response |-> HTTPException(400, validate_all(p.flights)),
          df |-> NoFrame, logged |-> NoRow]
    ELSE IF FAKE_MODEL_MODE
         THEN LET predictions == [i \in 1..Len(p.flights) |-> 0]
              IN  [done |-> TRUE, response |-> Respond(p, predictions),
                   df |-> NoFrame, logged |-> LogOf(p, predictions)]
         ELSE IF _build_features(p.flights).raised # NoRaise
              THEN [done |-> TRUE, response |-> _build_features(p.flights).raised,
                    df |-> NoFrame, logged |-> NoRow]
              ELSE [done |-> FALSE, response |-> NoResponse,
                    df |-> _build_features(p.flights).df, logged |-> NoRow]

\* a handler that answers a failed inference with default predictions
Infer_with_default(p, df) ==
    IF xgb_model = NoModel \/ xgb_model.broken
    THEN [response |-> Respond(p, [i \in 1..Len(p.flights) |-> 0]),
          logged |-> LogOf(p, [i \in 1..Len(p.flights) |-> 0])]
    ELSE [response |-> Respond(p, model_predict(df)),
          logged |-> LogOf(p, model_predict(df))]

\* predict_delay from the call xgb_model.predict(features_df) on
Infer(p, df) ==
    IF xgb_model = NoModel \/ xgb_model.broken
    THEN [response |-> HTTPException(500, "Internal prediction error"), logged |-> NoRow]
    ELSE [response |-> Respond(p, model_predict(df)),
          logged |-> LogOf(p, model_predict(df))]

\* a handler that stores the columns of its batch as the schema, the way
\* DelayModel.preprocess does
Receive_storing_columns(h, p) ==
    /\ api_pc = "serving"
    /\ hpc[h] = "idle"
    /\ payload' = [payload EXCEPT ![h] = p]
    /\ invoked' = [invoked EXCEPT ![h] = NoCall]
    /\ IF Prepare(p).done
       THEN /\ hpc' = [hpc EXCEPT ![h] = "done"]
            /\ response' = [response EXCEPT ![h] = Prepare(p).response]
            /\ logged' = [logged EXCEPT ![h] = Prepare(p).logged]
            /\ UNCHANGED <<features_df, feature_names>>
       ELSE /\ hpc' = [hpc EXCEPT ![h] = "built"]
            /\ features_df' = [features_df EXCEPT ![h] = Prepare(p).df]
            /\ feature_names' = payload_dummies(p.flights).columns
            /\ UNCHANGED <<response, logged>>
    /\ UNCHANGED <<api_pc, FAKE_MODEL_MODE, xgb_model, bq_client, pvars, evars>>

\* a handler receives a request and runs up to the call of the classifier
Receive(h, p) ==
    /\ api_pc = "serving"
    /\ hpc[h] = "idle"
    /\ payload' = [payload EXCEPT ![h] = p]
    /\ invoked' = [invoked EXCEPT ![h] = NoCall]
    /\ IF Prepare(p).done
       THEN /\ hpc' = [hpc EXCEPT ![h] = "done"]
            /\ response' = [response EXCEPT ![h] = Prepare(p).response]
            /\ logged' = [logged EXCEPT ![h] = Prepare(p).logged]
            /\ UNCHANGED features_df
       ELSE /\ hpc' = [hpc EXCEPT ![h] = "built"]
            /\ features_df' = [features_df EXCEPT ![h] = Prepare(p).df]
            /\ UNCHANGED <<response, logged>>
    /\ UNCHANGED <<gvars, pvars, evars>>

\* the handler calls the classifier and answers
CallModel(h) ==
    /\ hpc[h] = "built"
    /\ invoked' = [invoked EXCEPT ![h] =
                      [made |-> TRUE, model |-> xgb_model, features |-> features_df[h]]]
    /\ response' = [response EXCEPT ![h] = Infer(payload[h], features_df[h]).response]
    /\ logged' = [logged EXCEPT ![h] = Infer(payload[h], features_df[h]).logged]
    /\ hpc' = [hpc EXCEPT ![h] = "done"]
    /\ UNCHANGED <<gvars, payload, features_df, pvars, evars>>

\* the whole of predict_delay in one step
predict_delay(h, p) ==
    /\ api_pc = "serving"
    /\ hpc[h] = "idle"
    /\ payload' = [payload EXCEPT ![h] = p]
    /\ hpc' = [hpc EXCEPT ![h] = "done"]
    /\ features_df' = [features_df EXCEPT ![h] = Prepare(p).df]
    /\ IF Prepare(p).done
       THEN /\ response' = [response EXCEPT ![h] = Prepare(p).response]
            /\ logged' = [logged EXCEPT ![h] = Prepare(p).logged]
            /\ invoked' = [invoked EXCEPT ![h] = NoCall]
       ELSE /\ response' = [response EXCEPT ![h] = Infer(p, Prepare(p).df).response]
            /\ logged' = [logged EXCEPT ![h] = Infer(p, Prepare(p).df).logged]
            /\ invoked' = [invoked EXCEPT ![h] =
                              [made |-> TRUE, model |-> xgb_model,
                               features |-> Prepare(p).df]]
    /\ UNCHANGED <<gvars, pvars, evars>>

\* the response has been sent: the handler's locals are gone
Return(h) ==
    /\ hpc[h] = "done"
    /\ hpc' = [hpc EXCEPT ![h] = "idle"]
    /\ payload' = [payload EXCEPT ![h] = NoPayload]
    /\ features_df' = [features_df EXCEPT ![h] = NoFrame]
    /\ response' = [response EXCEPT ![h] = NoResponse]
    /\ invoked' = [invoked EXCEPT ![h] = NoCall]
    /\ logged' = [logged EXCEPT ![h] = NoRow]
    /\ UNCHANGED <<gvars, pvars, evars>>

\* the server starts in test mode
ImportFake == Import(TRUE, TRUE, TRUE, Fails, None)

\* the server starts on the local artifact, or finds none that loads and
\* must not download
ImportLocal ==
    \E loads \in BOOLEAN, bq \in {None, "client"} :
        /\ disk = NoModel => loads
        /\ Import(FALSE, loads, TRUE, Fails, bq)

\* the server finds no local artifact and downloads one from the bucket
ImportRemote(arts) ==
    \E remote \in {Fails} \cup arts, bq \in {None, "client"} :
        /\ disk = NoModel
        /\ Import(FALSE, TRUE, FALSE, remote, bq)

Next ==
    \/ \E m \in {"train", "predict", "both", "test"} : Main(m)
    \/ \E df \in DataSets : TrainPreprocess(df)
    \/ Fit
    \/ \E df \in DataSets : PredictPreprocess(df)
    \/ \E df \in DataSets : InferenceBatch(df)
    \/ \E raises \in BOOLEAN : Predict(raises)
    \/ Reload
    \/ Exit
    \/ ImportFake
    \/ ImportLocal
    \/ ImportRemote(Artifacts)
    \/ \E p \in Payloads : predict_delay(1, p)
    \/ Return(1)

Spec == Init /\ [][Next]_vars

\* ------------------------------------------------------------------------
\* The server under concurrent requests: each handler runs predict_delay in
\* two steps, up to the call of the classifier and from it on
\* ------------------------------------------------------------------------
ConcFlights == {f \in FlightData : f.OPERA = "Grupo LATAM" /\ f.TIPOVUELO = "N"}

ConcPayloads ==
    {[kind |-> "single", flights |-> <<f>>] : f \in ConcFlights}
    \cup {[kind |-> "batch", flights |-> fs] : fs \in [1..2 -> ConcFlights]}

ConcDataSets ==
    {d \in DataSets : /\ Len(d) >= 2
                      /\ \A i \in 1..Len(d) : d[i].OPERA = "Grupo LATAM" /\ d[i].TIPOVUELO = "N"}

ConcArtifacts ==
    {FittedClassifier(preprocess_features(d).columns) : d \in ConcDataSets}
    \cup {[FittedClassifier(preprocess_features(d).columns) EXCEPT !.broken = TRUE] :
            d \in ConcDataSets}

NextConc ==
    \/ ImportFake
    \/ ImportRemote(ConcArtifacts)
    \/ \E h \in Handlers, p \in ConcPayloads : Receive(h, p)
    \/ \E h \in Handlers : CallModel(h)
    \/ \E h \in Handlers : Return(h)

SpecConc == Init /\ [][NextConc]_vars

\* ------------------------------------------------------------------------
\* A caller of DelayModel.preprocess with a raw frame that carries the
\* timestamps.  A raw frame is [columns, rows], each row the function from
\* the column names to the cells.
\* ------------------------------------------------------------------------
DateValues ==
    {<<2016, 2, 29>>, <<2016, 12, 31>>, <<2017, 1, 1>>, <<2017, 3, 3>>, <<2017, 3, 4>>,
     <<2017, 7, 14>>, <<2017, 7, 15>>, <<2017, 7, 31>>, <<2017, 8, 1>>, <<2017, 9, 10>>,
     <<2017, 9, 11>>, <<2017, 9, 30>>, <<2017, 10, 1>>, <<2017, 12, 14>>,
     <<2017, 12, 15>>, <<2017, 12, 31>>}

TimeValues ==
    {<<0, 0, 0>>, <<4, 59, 59>>, <<5, 0, 0>>, <<11, 59, 0>>, <<11, 59, 30>>,
     <<11, 59, 59>>, <<12, 0, 0>>, <<18, 59, 0>>, <<18, 59, 59>>, <<19, 0, 0>>,
     <<23, 59, 59>>}

\* cells strptime does not accept: other text, nan, a number, a month 13,
\* a 29th of February of 2017, an hour 24
Unparseable ==
    {NotADate, NaN, Number, Stamp(2017, 13, 1, 0, 0, 0), Stamp(2017, 2, 29, 12, 0, 0),
     Stamp(2017, 1, 1, 24, 0, 0)}

FechaIValues ==
    {Stamp(d[1], d[2], d[3], t[1], t[2], t[3]) : d \in DateValues, t \in TimeValues}
    \cup Unparseable

FechaOValues ==
    {Stamp(2018, 1, 1, 0, 5, 0), Stamp(2018, 1, 1, 0, 5, 1), Stamp(2016, 1, 1, 0, 0, 0), NaN}

\* the cells of the frames of several rows
BatchFechaI == {Stamp(2017, 12, 31, 23, 50, 0), Stamp(2017, 3, 3, 11, 59, 30), NotADate}
BatchFechaO == {Stamp(2018, 1, 1, 0, 5, 0), Stamp(2018, 1, 1, 0, 5, 1), NaN}
BatchFlights ==
    {[OPERA |-> "Grupo LATAM", TIPOVUELO |-> "N", MES |-> 10],
     [OPERA |-> "Argentinas", TIPOVUELO |-> "I", MES |-> 2]}

RawColumns == <<"Fecha-I", "Fecha-O", "OPERA", "TIPOVUELO", "MES">>

RowsWithDates ==
    {c @@ ("Fecha-I" :> fi) @@ ("Fecha-O" :> fo) :
        c \in BatchFlights, fi \in BatchFechaI, fo \in BatchFechaO}
RowsWithoutFechaO == {c @@ ("Fecha-I" :> fi) : c \in BatchFlights, fi \in BatchFechaI}
RowsWithoutFechaI == {c @@ ("Fecha-O" :> fo) : c \in BatchFlights, fo \in BatchFechaO}
RowsWithDelay ==
    {r @@ ("delay" :> v) :
        r \in {w \in RowsWithDates : w["Fecha-I"] = Stamp(2017, 12, 31, 23, 50, 0)},
        v \in {0, 1}}

FramesOf(columns, rowset, n) ==
    {[columns |-> columns, rows |-> rs] : rs \in SeqsUpTo(rowset, n) \ {<<>>}}

\* the raw frames a caller passes: frames of one row over all the dates and
\* times, and frames of up to MaxRows rows with and without the columns
\* Fecha-O, Fecha-I and delay
RawFrames ==
    FramesOf(RawColumns,
             {[OPERA |-> "Grupo LATAM", TIPOVUELO |-> "N", MES |-> 10]
                 @@ ("Fecha-I" :> fi) @@ ("Fecha-O" :> fo) :
                 fi \in FechaIValues, fo \in FechaOValues}, 1)
    \cup FramesOf(RawColumns, RowsWithDates, MaxRows)
    \cup FramesOf(<<"Fecha-I", "OPERA", "TIPOVUELO", "MES">>, RowsWithoutFechaO, MaxRows)
    \cup FramesOf(<<"Fecha-O", "OPERA", "TIPOVUELO", "MES">>, RowsWithoutFechaI, MaxRows)
    \cup FramesOf(Append(RawColumns, "delay"), RowsWithDelay, MaxRows)

\* df = pd.read_csv(...): the caller holds a raw frame
ReadFrame(frames) ==
    /\ pre_pc = "idle"
    /\ pc = "start"
    /\ api_pc = "import"
    /\ \E df \in frames : pre_df' = df
    /\ pre_pc' = "loaded"
    /\ UNCHANGED <<pre_target_column, pre_data, pre_features, pre_target>>
    /\ UNCHANGED <<pvars, avars>>

\* model.preprocess(df, target_column): data = data.copy() leaves the
\* caller's frame alone; data["Fecha-I"] raises KeyError on a frame without
\* that column
preprocess(target_column) ==
    /\ pre_pc = "loaded"
    /\ pre_target_column' = target_column
    /\ IF ~HasColumn(pre_df, "Fecha-I")
       THEN /\ pre_pc' = "raised"
            /\ UNCHANGED <<pre_data, pre_features, pre_target,
                           m_feature_columns, columns_origin>>
       ELSE /\ pre_data' = engineered(pre_df)
            /\ pre_features' = preprocess_features(engineered(pre_df).rows)
            /\ m_feature_columns' = preprocess_features(engineered(pre_df).rows).columns
            /\ columns_origin' = IF target_column = None THEN "inference" ELSE "training"
            /\ pre_target' = IF target_column = None THEN <<>>
                             ELSE Column(engineered(pre_df).rows, target_column)
            /\ pre_pc' = "returned"
    /\ UNCHANGED pre_df
    /\ UNCHANGED <<pc, mode, m_model, disk, X, df_pred, X_pred, preds, call, reloaded>>
    /\ UNCHANGED avars

\* the caller drops the model and its frames
Release ==
    /\ pre_pc \in {"returned", "raised"}
    /\ pre_pc' = "idle"
    /\ pre_df' = NoFrame
    /\ pre_target_column' = None
    /\ pre_data' = NoFrame
    /\ pre_features' = NoFrame
    /\ pre_target' = <<>>
    /\ m_feature_columns' = NoColumns
    /\ columns_origin' = None
    /\ UNCHANGED <<pc, mode, m_model, disk, X, df_pred, X_pred, preds, call, reloaded>>
    /\ UNCHANGED avars

NextPre ==
    \/ ReadFrame(RawFrames)
    \/ \E target_column \in {None, "delay"} : preprocess(target_column)
    \/ Release

SpecPre == Init /\ [][NextPre]_vars

\* ------------------------------------------------------------------------
\* Properties
\* ------------------------------------------------------------------------
\* the process has fit a classifier itself (it did not load it)
TrainedHere == mode \in {"train", "both", "test"} /\ m_model # NoModel

\* C1: once a training run (preprocess with a target column, then fit) has
\* fixed the schema of a DelayModel, every later operation leaves it alone:
\* the column sequence predict aligns to is the column sequence of the
\* training matrix the classifier was fit on.
C1_CanonicalSchemaImmutable ==
    TrainedHere => m_feature_columns = m_model.feature_names_in_

\* out is the matrix enc forced into the column sequence schema: the
\* columns of the schema in schema order, a cell taken from the column of
\* the same name of enc, 0 where enc has no such column
IsAligned(out, enc, schema) ==
    /\ out.columns = schema
    /\ Len(out.rows) = Len(enc.rows)
    /\ \A i \in 1..Len(out.rows) :
         /\ Len(out.rows[i]) = Len(schema)
         /\ \A j \in 1..Len(schema) :
              /\ (\A k \in 1..Len(enc.columns) : enc.columns[k] # schema[j])
                    => out.rows[i][j] = 0
              /\ \A k \in 1..Len(enc.columns) :
                    enc.columns[k] = schema[j] => out.rows[i][j] = enc.rows[i][k]

\* C2: the matrix the Schema Aligner hands to the classifier (in
\* _build_features and in DelayModel.predict) has exactly the columns of the
\* schema in schema order; input columns outside the schema are dropped,
\* schema columns absent from the input are 0 in every row, columns present
\* in both keep their input values.
C2_AlignedToSchema ==
    /\ \A h \in Handlers :
         invoked[h].made =>
            /\ feature_names # <<>>
            /\ IsAligned(invoked[h].features, payload_dummies(payload[h].flights),
                         feature_names)
    /\ call.made =>
            /\ m_feature_columns # <<>>
            /\ IsAligned(call.features, preprocess_features(df_pred), m_feature_columns)

\* C2 witness: a request whose encoding has a column outside the schema,
\* lacks a column of the schema and shares a column with it has reached the
\* classifier
C2_Witness ==
    \E h \in Handlers :
       /\ invoked[h].made
       /\ LET enc == payload_dummies(payload[h].flights)
          IN  /\ \E k \in 1..Len(enc.columns) :
                    \A j \in 1..Len(feature_names) : feature_names[j] # enc.columns[k]
              /\ \E j \in 1..Len(feature_names) :
                    \A k \in 1..Len(enc.columns) : feature_names[j] # enc.columns[k]
              /\ \E j \in 1..Len(feature_names) : \E i \in 1..Len(enc.rows) :
                    invoked[h].features.rows[i][j] = 1

\* C2 witness for DelayModel.predict: likewise for the test client
C2_WitnessPredict ==
    /\ call.made
    /\ LET enc == preprocess_features(df_pred)
       IN  /\ \E k \in 1..Len(enc.columns) :
                 \A j \in 1..Len(m_feature_columns) : m_feature_columns[j] # enc.columns[k]
           /\ \E j \in 1..Len(m_feature_columns) :
                 \A k \in 1..Len(enc.columns) : m_feature_columns[j] # enc.columns[k]

\* C3: a prediction served with a classifier loaded from a persisted artifact
\* is aligned to the schema of the training matrix of that classifier,
\* obtained from the artifact, never to the columns of the inference batch.
C3_LoadedClassifierWithItsSchema ==
    /\ \A h \in Handlers :
         (invoked[h].made /\ invoked[h].model # FakeModel) =>
            /\ invoked[h].features.columns # <<>>
            /\ invoked[h].features.columns = _extract_feature_names(invoked[h].model)
    /\ (call.made /\ call.loaded) =>
            /\ call.origin # "inference"
            /\ call.features.columns = call.model.feature_names_in_

\* the feature row of one record under a schema, by the one-hot rule: 1 in
\* the columns named after the record's airline, flight type and month
OneHotRow(f, schema) ==
    [j \in 1..Len(schema) |->
        IF schema[j] \in {OperaName[f.OPERA], TipoName[f.TIPOVUELO], MesName[f.MES]}
        THEN 1 ELSE 0]

\* the predictions a 200 response carries
PredictionsOf(r, p) == IF p.kind = "batch" THEN r.predict ELSE <<r.delay_prediction>>

\* C4: a successful predict call returns one prediction per input record,
\* each 0 or 1, and prediction i is the classifier's label of the aligned
\* feature row of record i, for every batch size.
C4_OnePredictionPerRecord ==
    /\ \A h \in Handlers :
         (hpc[h] = "done" /\ response[h].status = 200) =>
            LET P == PredictionsOf(response[h], payload[h])
                fs == payload[h].flights
            IN  /\ Len(P) = Len(fs)
                /\ \A i \in 1..Len(fs) :
                      /\ P[i] \in {0, 1}
                      /\ P[i] = IF FAKE_MODEL_MODE THEN 0
                                ELSE ClassifyRow(OneHotRow(fs[i], feature_names))
    /\ (pc = "done" /\ call.made) =>
            /\ Len(preds) = Len(df_pred)
            /\ \A i \in 1..Len(df_pred) :
                  /\ preds[i] \in {0, 1}
                  /\ preds[i] = ClassifyRow(OneHotRow(df_pred[i], m_feature_columns))

\* C4 witness: a batch of two records answered with two different labels
C4_Witness ==
    \E h \in Handlers :
       /\ hpc[h] = "done"
       /\ response[h].status = 200
       /\ payload[h].kind = "batch"
       /\ Len(payload[h].flights) = 2
       /\ response[h].predict[1] # response[h].predict[2]

\* the response predict_delay gives to a request in the current state of
\* the module
ResponseTo(p) ==
    IF Prepare(p).done THEN Prepare(p).response ELSE Infer(p, Prepare(p).df).response

Single(f) == [kind |-> "single", flights |-> <<f>>]

\* C5: entry i of the response to a batch equals the delay_prediction
\* returned when record i is sent alone, and the aligned feature row of a
\* record is the one built for it when it is sent alone.
C5_BatchEqualsSingles ==
    \A h \in Handlers :
       (hpc[h] = "done" /\ payload[h].kind = "batch" /\ response[h].status = 200) =>
          \A i \in 1..Len(payload[h].flights) :
             /\ ResponseTo(Single(payload[h].flights[i])).status = 200
             /\ response[h].predict[i]
                   = ResponseTo(Single(payload[h].flights[i])).delay_prediction
             /\ invoked[h].made =>
                   invoked[h].features.rows[i]
                      = Prepare(Single(payload[h].flights[i])).df.rows[1]

\* C5 witness: a batch of two records with different months has been
\* answered by the classifier
C5_Witness ==
    \E h \in Handlers :
       /\ hpc[h] = "done"
       /\ invoked[h].made
       /\ payload[h].kind = "batch"
       /\ response[h].status = 200
       /\ Len(payload[h].flights) = 2
       /\ payload[h].flights[1].MES # payload[h].flights[2].MES

\* the columns of a schema that belong to the block of one source column
Block(schema, name) ==
    {j \in 1..Len(schema) : \E v \in DOMAIN name : name[v] = schema[j]}

\* in the block, the row has a 1 in the column named after the value v and
\* nowhere else
OneIndicator(row, schema, name, v) ==
    \A j \in Block(schema, name) : row[j] = IF schema[j] = name[v] THEN 1 ELSE 0

BlocksOfRow(row, schema, f) ==
    /\ OneIndicator(row, schema, OperaName, f.OPERA)
    /\ OneIndicator(row, schema, TipoName, f.TIPOVUELO)
    /\ OneIndicator(row, schema, MesName, f.MES)

\* a value of the record has no column in the schema
Unseen(f, schema) ==
    \E n \in {OperaName[f.OPERA], TipoName[f.TIPOVUELO], MesName[f.MES]} :
       \A j \in 1..Len(schema) : schema[j] # n

\* C6: in the aligned row of a record each block (OPERA, TIPOVUELO, MES) has
\* exactly one indicator equal to 1, the column <column>_<value> of the
\* record, when the schema has that column, and only zeros when the value
\* was never seen in training; an unseen value is served, not rejected.
C6_OneIndicatorPerBlock ==
    /\ \A h \in Handlers :
         invoked[h].made =>
            /\ \A i \in 1..Len(payload[h].flights) :
                  BlocksOfRow(invoked[h].features.rows[i], feature_names,
                              payload[h].flights[i])
            /\ (hpc[h] = "done" /\ ~invoked[h].model.broken) => response[h].status = 200
    /\ call.made =>
            /\ \A i \in 1..Len(df_pred) :
                  BlocksOfRow(call.features.rows[i], m_feature_columns, df_pred[i])
            /\ ~call.raised => pc = "done"

\* C6 witness: a record with a value the schema has no column for, and a
\* value it has a column for, has been served
C6_Witness ==
    \E h \in Handlers :
       /\ hpc[h] = "done"
       /\ invoked[h].made
       /\ response[h].status = 200
       /\ \E i \in 1..Len(payload[h].flights) :
             /\ Unseen(payload[h].flights[i], feature_names)
             /\ \E j \in 1..Len(feature_names) : invoked[h].features.rows[i][j] = 1

ModelUnavailable == xgb_model = NoModel \/ feature_names = <<>>

\* C7: if the classifier or its schema is unavailable when a predict call is
\* made, the call fails with 'model unavailable' (HTTP 500 'Model not
\* available'), returns no prediction and does not invoke the classifier.
C7_UnavailableFailsCall ==
    \A h \in Handlers :
       (hpc[h] = "done" /\ payload[h].flights # <<>>
          /\ validate_all(payload[h].flights) = None /\ ModelUnavailable) =>
          /\ response[h] = HTTPException(500, "Model not available")
          /\ ~invoked[h].made

\* C7 as amended: with FAKE_MODEL_MODE off, a request whose records pass
\* validation, made while xgb_model is None or feature_names is empty, fails
\* with HTTP 500 'Model not available', no prediction is returned or logged
\* and the classifier is not invoked; DelayModel.predict invokes a
\* classifier only with a classifier and a schema, and a call of it that
\* fails returns no prediction.
C7_UnavailableFailsCallUnlessFake ==
    /\ \A h \in Handlers :
         (hpc[h] = "done" /\ ~FAKE_MODEL_MODE /\ validate_all(payload[h].flights) = None
            /\ ModelUnavailable) =>
            /\ response[h] = HTTPException(500, "Model not available")
            /\ ~invoked[h].made
            /\ logged[h] = NoRow
    /\ call.made => (call.model # NoModel /\ call.features.columns # NoColumns)
    /\ pc = "error" => preds = <<>>

\* C7 witness: a valid request has been answered while a classifier without
\* feature names was loaded
C7_Witness ==
    \E h \in Handlers :
       /\ hpc[h] = "done"
       /\ ~FAKE_MODEL_MODE
       /\ xgb_model # NoModel
       /\ feature_names = <<>>
       /\ payload[h].flights # <<>>
       /\ validate_all(payload[h].flights) = None

\* C8: if the classifier's predict raises while a request is served, the
\* whole call fails with HTTP 500 'Internal prediction error': no prediction
\* is returned for any record and no prediction is logged.
C8_InferenceErrorFailsCall ==
    \A h \in Handlers :
       (hpc[h] = "done" /\ invoked[h].made
          /\ (invoked[h].model = NoModel \/ invoked[h].model.broken)) =>
          /\ response[h] = HTTPException(500, "Internal prediction error")
          /\ logged[h] = NoRow

\* C8 witness: a single-object request has reached a classifier whose
\* predict raises, with BigQuery logging on
C8_Witness ==
    \E h \in Handlers :
       /\ hpc[h] = "done"
       /\ invoked[h].made
       /\ invoked[h].model.broken
       /\ payload[h].kind = "single"
       /\ bq_client # None

\* a record outside the allowed domain
Invalid(f) ==
    \/ f.OPERA \notin VALID_OPERAS
    \/ f.TIPOVUELO \notin VALID_TIPOVUELOS
    \/ f.MES \notin VALID_MESES

\* C9: a request with at least one record whose OPERA, TIPOVUELO or MES is
\* outside the allowed set is rejected with status 400 before the pipeline
\* runs: no features are built, the classifier is not invoked, nothing is
\* predicted or logged, wherever the record is in the batch and whether or
\* not a model is loaded.
C9_InvalidRejectedBeforePipeline ==
    \A h \in Handlers :
       (hpc[h] # "idle" /\ \E i \in 1..Len(payload[h].flights) : Invalid(payload[h].flights[i])) =>
          /\ hpc[h] = "done"
          /\ response[h].status = 400
          /\ features_df[h] = NoFrame
          /\ ~invoked[h].made
          /\ logged[h] = NoRow

\* C9 witness: a batch whose second record only is invalid has been answered
\* while a model was loaded
C9_Witness ==
    \E h \in Handlers :
       /\ hpc[h] = "done"
       /\ ~ModelUnavailable
       /\ ~FAKE_MODEL_MODE
       /\ Len(payload[h].flights) = 2
       /\ ~Invalid(payload[h].flights[1])
       /\ Invalid(payload[h].flights[2])

\* C10: once loaded the artifact is a shared read-only resource: under any
\* interleaving of request handlers no handler writes xgb_model or
\* feature_names, and every request gets the response it would get if it
\* were served alone.
C10_SharedReadOnly ==
    /\ [](\A h \in Handlers :
            /\ hpc[h] = "built" => features_df[h] = Prepare(payload[h]).df
            /\ hpc[h] = "done" => response[h] = ResponseTo(payload[h]))
    /\ [][api_pc = "serving" => UNCHANGED <<xgb_model, feature_names>>]_vars

\* C10 witness: a handler has answered a request with the classifier while
\* another handler, with another request, is between building its features
\* and calling the classifier
C10_Witness ==
    \E h1, h2 \in Handlers :
       /\ h1 # h2
       /\ hpc[h1] = "built"
       /\ hpc[h2] = "done"
       /\ invoked[h2].made
       /\ response[h2].status = 200
       /\ payload[h1] # payload[h2]

\* the seconds since midnight written in the text of a timestamp
ClockSeconds(cell) == cell.hour * 3600 + cell.minute * 60 + cell.second

\* C11: for every parseable Fecha-I, period_day depends only on the time of
\* day: morning from 05:00:00 to 11:59:59, afternoon from 12:00:00 to
\* 18:59:59, night from 00:00:00 to 04:59:59 and from 19:00:00 to 23:59:59.
C11_PeriodDayByTimeOfDay ==
    pre_pc = "returned" =>
       \A i \in DOMAIN pre_data.rows :
          LET row == pre_data.rows[i]
              t == ClockSeconds(row["Fecha-I"])
          IN  Parses(row["Fecha-I"]) =>
                 row.period_day =
                    IF 5 * 3600 <= t /\ t <= 11 * 3600 + 59 * 60 + 59 THEN "mañana"
                    ELSE IF 12 * 3600 <= t /\ t <= 18 * 3600 + 59 * 60 + 59 THEN "tarde"
                         ELSE "noche"

\* the day of the year lies in one of the four high-season windows
InWindow(month, day) ==
    \/ month = 12 /\ day \in 15..31
    \/ month \in {1, 2}
    \/ month = 3 /\ day \in 1..3
    \/ month = 7 /\ day \in 15..31
    \/ month = 9 /\ day \in 11..30

\* C12: for every parseable Fecha-I, high_season is 1 exactly when the
\* calendar date, at any time of day, lies in Dec 15-Dec 31, Jan 1-Mar 3,
\* Jul 15-Jul 31 or Sep 11-Sep 30, first and last day included.
C12_HighSeasonByCalendarDate ==
    pre_pc = "returned" =>
       \A i \in DOMAIN pre_data.rows :
          LET row == pre_data.rows[i]
              fecha == row["Fecha-I"]
          IN  Parses(fecha) =>
                 row.high_season = IF InWindow(fecha.month, fecha.day) THEN 1 ELSE 0

\* C13: on a frame without a delay column preprocess derives delay = 1 for
\* the rows with min_diff > 15 minutes and 0 for the others (15 minutes
\* exactly gives 0), and that is the target returned; on a frame with the
\* target column the target returned is that column, row by row.
C13_DelayDerivedOrReused ==
    pre_pc = "returned" =>
       /\ ~HasColumn(pre_df, "delay") =>
             /\ \A i \in DOMAIN pre_data.rows :
                   pre_data.rows[i].delay =
                      IF pre_data.rows[i].min_diff > 15 * 60 THEN 1 ELSE 0
             /\ pre_target_column = "delay" =>
                   pre_target = [i \in 1..Len(pre_df.rows) |-> pre_data.rows[i].delay]
       /\ HasColumn(pre_df, "delay") /\ pre_target_column = "delay" =>
             pre_target = [i \in 1..Len(pre_df.rows) |-> pre_df.rows[i].delay]

\* C13 witness: a frame without delay column whose first row is operated
\* exactly 15 minutes after schedule and whose second row 15 minutes and a
\* second after it; the target has been returned
C13_Witness ==
    /\ pre_pc = "returned"
    /\ ~HasColumn(pre_df, "delay")
    /\ HasColumn(pre_df, "Fecha-O")
    /\ pre_target_column = "delay"
    /\ Len(pre_df.rows) = 2
    /\ pre_df.rows[1]["Fecha-I"] = Stamp(2017, 12, 31, 23, 50, 0)
    /\ pre_df.rows[1]["Fecha-O"] = Stamp(2018, 1, 1, 0, 5, 0)
    /\ pre_df.rows[2]["Fecha-I"] = Stamp(2017, 12, 31, 23, 50, 0)
    /\ pre_df.rows[2]["Fecha-O"] = Stamp(2018, 1, 1, 0, 5, 1)
    /\ pre_target = <<0, 1>>

\* a frame with a delay column whose values differ from the derived ones
\* has been preprocessed with target_column = "delay"
C13_WitnessReused ==
    /\ pre_pc = "returned"
    /\ HasColumn(pre_df, "delay")
    /\ pre_target_column = "delay"
    /\ \E i \in DOMAIN pre_df.rows :
          pre_df.rows[i].delay # derive_delay(pre_data.rows[i].min_diff)

\* a row one of whose timestamps is malformed, missing or not a string
CorruptDates(row) ==
    \/ ~Parses(row["Fecha-I"])
    \/ "Fecha-O" \notin DOMAIN row
    \/ ~Parses(row["Fecha-O"])

WellFormedRows(df) ==
    [columns |-> df.columns,
     rows |-> SelectSeq(df.rows, LAMBDA r : ~CorruptDates(r))]

\* the index of row i of df among the well-formed rows of df
Rank(df, i) == Cardinality({j \in 1..i : ~CorruptDates(df.rows[j])})

\* C14: the temporal extractors do not raise: on a frame some of whose rows
\* have a malformed, missing or non-string Fecha-I or Fecha-O, preprocess
\* returns, every row is engineered, a row with an unusable Fecha-I gets
\* period_day = noche and high_season = 0, a row with an unusable
\* timestamp gets min_diff = 0 and derived delay 0, and the well-formed
\* rows get the engineered values and indicators they get without the
\* corrupt rows.
C14_ExtractorsNeverRaise ==
    /\ pre_pc = "raised" => ~HasColumn(pre_df, "Fecha-I")
    /\ pre_pc = "returned" =>
          /\ Len(pre_data.rows) = Len(pre_df.rows)
          /\ Len(pre_features.rows) = Len(pre_df.rows)
          /\ \A i \in DOMAIN pre_df.rows :
                LET row == pre_df.rows[i]
                    out == pre_data.rows[i]
                IN  /\ ~Parses(row["Fecha-I"]) =>
                          out.period_day = "noche" /\ out.high_season = 0
                    /\ CorruptDates(row) =>
                          /\ out.min_diff = 0
                          /\ ~HasColumn(pre_df, "delay") => out.delay = 0
          /\ LET alone == engineered(WellFormedRows(pre_df))
                 matrix == preprocess_features(WellFormedRows(pre_df).rows)
             IN  \A i \in DOMAIN pre_df.rows :
                    ~CorruptDates(pre_df.rows[i]) =>
                       /\ pre_data.rows[i] = alone.rows[Rank(pre_df, i)]
                       /\ \A j \in DOMAIN pre_features.columns :
                             pre_features.rows[i][j] =
                                IF HasColumn(matrix, pre_features.columns[j])
                                THEN matrix.rows[Rank(pre_df, i)]
                                        [ColumnIndex(matrix, pre_features.columns[j])]
                                ELSE 0

\* C14 witness: a frame of two rows has been preprocessed, the first with
\* a Fecha-I that is not a date and another airline, flight type and month
\* than the second, which is well formed
C14_Witness ==
    /\ pre_pc = "returned"
    /\ ~HasColumn(pre_df, "delay")
    /\ pre_target_column = "delay"
    /\ Len(pre_df.rows) = 2
    /\ pre_df.rows[1]["Fecha-I"] = NotADate
    /\ pre_df.rows[1].OPERA # pre_df.rows[2].OPERA
    /\ ~CorruptDates(pre_df.rows[2])
    /\ pre_data.rows[2].min_diff > 15 * 60

\* a frame without the column Fecha-O has been preprocessed
C14_WitnessNoFechaO ==
    /\ pre_pc = "returned"
    /\ ~HasColumn(pre_df, "Fecha-O")
    /\ Parses(pre_df.rows[1]["Fecha-I"])

\* the values of column field observed in the rows
Observed(rows, field) == {rows[i][field] : i \in DOMAIN rows}

\* the position of a value in a sequence without repetition
PositionIn(order, v) == CHOOSE k \in DOMAIN order : order[k] = v

\* the airlines S by the code points of their names
SortedOperas(S) ==
    CHOOSE s \in [1..Cardinality(S) -> S] :
       \A j, k \in 1..Cardinality(S) :
          j < k => PositionIn(OperaOrder, s[j]) < PositionIn(OperaOrder, s[k])

\* the flight types S by code point
SortedTipos(S) ==
    CHOOSE s \in [1..Cardinality(S) -> S] :
       \A j, k \in 1..Cardinality(S) :
          j < k => PositionIn(TipoOrder, s[j]) < PositionIn(TipoOrder, s[k])

\* the months S by value
SortedMesesByValue(S) ==
    CHOOSE s \in [1..Cardinality(S) -> S] :
       \A j, k \in 1..Cardinality(S) : j < k => s[j] < s[k]

\* the decimal digits of a month number, the text that follows "MES_"
Digits(n) == IF n < 10 THEN <<n>> ELSE <<n \div 10, n % 10>>

\* text a sorts before text b, both given by their digits
TextBefore(a, b) ==
    \/ \E k \in 1..Len(a) :
          /\ k <= Len(b)
          /\ \A l \in 1..(k - 1) : a[l] = b[l]
          /\ a[k] < b[k]
    \/ Len(a) < Len(b) /\ \A l \in 1..Len(a) : a[l] = b[l]

\* the months S by their column names ("MES_10" sorts before "MES_2")
SortedMesesByName(S) ==
    CHOOSE s \in [1..Cardinality(S) -> S] :
       \A j, k \in 1..Cardinality(S) :
          j < k => TextBefore(Digits(s[j]), Digits(s[k]))

\* every cell of the matrix is the indicator of its row's value
IsIndicatorMatrix(operas, tipos, meses) ==
    \A i \in DOMAIN pre_df.rows :
       pre_features.rows[i] =
          [j \in 1..Len(operas) |-> IF pre_df.rows[i].OPERA = operas[j] THEN 1 ELSE 0]
          \o [j \in 1..Len(tipos) |-> IF pre_df.rows[i].TIPOVUELO = tipos[j] THEN 1 ELSE 0]
          \o [j \in 1..Len(meses) |-> IF pre_df.rows[i].MES = meses[j] THEN 1 ELSE 0]

\* C15 as stated: the encoder gives one indicator column <column>_<value>
\* per distinct value observed in the batch and no other column, the blocks
\* in the order OPERA, TIPOVUELO, MES and the columns of each block in the
\* sort order of the column names.
C15_BlocksInNameSortOrder ==
    pre_pc = "returned" =>
       LET operas == SortedOperas(Observed(pre_df.rows, "OPERA"))
           tipos == SortedTipos(Observed(pre_df.rows, "TIPOVUELO"))
           meses == SortedMesesByName(Observed(pre_df.rows, "MES"))
       IN  /\ pre_features.columns =
                 [j \in 1..Len(operas) |-> StrName("OPERA", operas[j])]
                 \o [j \in 1..Len(tipos) |-> StrName("TIPOVUELO", tipos[j])]
                 \o [j \in 1..Len(meses) |-> IntName("MES", meses[j])]
           /\ IsIndicatorMatrix(operas, tipos, meses)

\* C15 amended: the encoder gives one indicator column <column>_<value> per
\* distinct value observed in the batch and no other column, the blocks in
\* the order OPERA, TIPOVUELO, MES and the columns of each block in the
\* sort order of the values: code points for the texts of OPERA and
\* TIPOVUELO, numeric for the integers of MES (MES_2 before MES_10).
C15_BlocksInValueSortOrder ==
    pre_pc = "returned" =>
       LET operas == SortedOperas(Observed(pre_df.rows, "OPERA"))
           tipos == SortedTipos(Observed(pre_df.rows, "TIPOVUELO"))
           meses == SortedMesesByValue(Observed(pre_df.rows, "MES"))
       IN  /\ pre_features.columns =
                 [j \in 1..Len(operas) |-> StrName("OPERA", operas[j])]
                 \o [j \in 1..Len(tipos) |-> StrName("TIPOVUELO", tipos[j])]
                 \o [j \in 1..Len(meses) |-> IntName("MES", meses[j])]
           /\ IsIndicatorMatrix(operas, tipos, meses)
           /\ m_feature_columns = pre_features.columns

\* C15 witness: a frame has been encoded whose first row has the later
\* airline and flight type and month 10, its second row the earlier ones
\* and month 2
C15_Witness ==
    /\ pre_pc = "returned"
    /\ Len(pre_df.rows) = 2
    /\ pre_df.rows[1].OPERA = "Grupo LATAM" /\ pre_df.rows[2].OPERA = "Argentinas"
    /\ pre_df.rows[1].TIPOVUELO = "N" /\ pre_df.rows[2].TIPOVUELO = "I"
    /\ pre_df.rows[1].MES = 10 /\ pre_df.rows[2].MES = 2
    /\ pre_features.columns = <<"OPERA_Argentinas", "OPERA_Grupo LATAM", "TIPOVUELO_I",
                                "TIPOVUELO_N", "MES_2", "MES_10">>
    /\ pre_features.rows = << <<0, 1, 0, 1, 0, 1>>, <<1, 0, 1, 0, 1, 0>> >>

\* C16: preprocess and predict leave the frame of the caller as it was: a
\* call of either changes neither its columns nor its values.
C16_CallerFrameUnchanged ==
    [][/\ pc = "call_predict" => X_pred' = X_pred
       /\ pre_pc = "loaded" => pre_df' = pre_df]_vars

====
